---------------------------- MODULE Spec2Model ----------------------------
(***************************************************************************)
(* A model of the analytic core of the KONE maintenance portal:            *)
(*   - pages/1_Trend_Analyzer.py: point_status and detect_peaks_lows, as   *)
(*     the page applies them to one plotted series (lines 289-336);        *)
(*   - pages/6_Equipment_Health_Score.py: weight normalization, per-group  *)
(*     variability scores, the per-equipment health score and its status,  *)
(*     and the length check of its forecast section;                       *)
(*   - pages/7_Prediction_Module.py: the threshold lookup, the length      *)
(*     check, the breach search over the forecast and the remaining days.  *)
(*                                                                         *)
(* Numbers.  The program computes in IEEE doubles; the model computes in   *)
(* exact integer arithmetic.  A reading is an integer in the unit of its   *)
(* KPI.  A missing value (None / NaN) is the empty tuple, a present value  *)
(* v is the one-element tuple <<v>>, so that a NaN can never take part in  *)
(* arithmetic unnoticed.  std_factor is held in tenths (1.0 is 10).        *)
(***************************************************************************)
EXTENDS Integers, Sequences, FiniteSets, TLC

VARIABLES
    pc,           \* position of the page script that is running
    values,       \* df_floor[ave_col].values: the series given to the detector
    thresh,       \* (low, high) of the KPI, either side may be None
    std_factor,   \* sidebar slider "Peak/Low Sensitivity", in tenths
    statuses,     \* point_status of every point of the series
    peaks,        \* detect_peaks_lows(...)[0], 0-based indices
    lows,         \* detect_peaks_lows(...)[1], 0-based indices
    kpi_summary,  \* trend page: the records {kpi, floor, peaks, lows, rows}
    df,           \* health page: the ave column of each (eq, ckpi) group of the file
    selected_eq,  \* health page: the equipment chosen in the sidebar
    selected_kpis, \* health page: the KPI display names chosen in the sidebar
    slider,       \* health page: the weight slider of each selected KPI, in 1/60
    df_filtered,  \* health page: df[mask], the rows that pass the filters
    weights,      \* health page: the normalized weight of each KPI key
    stats,        \* health page: one row per (eq, ckpi) group
    eq_health,    \* health page: one row per equipment
    page,         \* forecast: the page that runs it, "prediction" or "health"
    series_rows,  \* forecast: the ave cell of every row of the chosen series
    selected_kpi, \* forecast: the display name of the chosen KPI
    period_days,  \* forecast: the horizon slider
    today,        \* forecast: pd.Timestamp.today().date(), a day number
    df_kpi,       \* forecast: the (ds, y) rows handed to Prophet
    kpi_thresh,   \* forecast: (low_thresh, high_thresh) as looked up
    forecast,     \* forecast: the (ds, yhat) rows of m.predict(future)
    predicted_failure_date, \* forecast: the breach date or None
    days_remaining, \* forecast: the remaining life in days or None
    runs,         \* the number of runs of the page script on the same inputs
    file_cols,    \* intake: the column names of the uploaded file, lower-cased
    file_rows,    \* intake: the rows of the uploaded file after parse_dates
    trend_eqs,    \* intake: "Select EQ(s)" of the trend page
    trend_floors, \* intake: "Select Floor(s)" of the trend page
    trend_result, \* intake: how the run of the trend page ended
    floor_series, \* intake: one record per df_floor given to the detector
    uploaded,     \* tracker: TRUE while a file is in the uploader
    maint_file,   \* tracker: the rows of the file in the uploader
    maint_df,     \* tracker: st.session_state.maint_df
    maint_table_state, \* tracker: st.session_state.maint_table_state
    sel_eqs,      \* tracker: "Select Equipment(s)"
    pressed,      \* tracker: the button of the last press
    uids,         \* tracker: df_filtered["__uid"] at the last press
    base_at_press, \* tracker: the table the last press acted on
    clock,        \* reports: datetime.now(), in seconds
    files,        \* reports: the files under backend/reports, path -> bytes
    written       \* reports: the paths returned by the calls of save_report

trendVars == <<values, thresh, std_factor, statuses, peaks, lows, kpi_summary>>
healthVars == <<df, selected_eq, selected_kpis, slider, df_filtered, weights,
               stats, eq_health>>
forecastVars == <<page, series_rows, selected_kpi, period_days, today, df_kpi,
                 kpi_thresh, forecast, predicted_failure_date, days_remaining>>
intakeVars == <<file_cols, file_rows, trend_eqs, trend_floors, trend_result,
                floor_series>>
trackerVars == <<uploaded, maint_file, maint_df, maint_table_state, sel_eqs,
                 pressed, uids, base_at_press>>
reportVars == <<clock, files, written>>
sideVars == <<intakeVars, trackerVars, reportVars>>
otherVars == <<runs, sideVars>>
vars == <<pc, values, thresh, std_factor, statuses, peaks, lows, kpi_summary,
          df, selected_eq, selected_kpis, slider, df_filtered, weights, stats,
          eq_health,
          page, series_rows, selected_kpi, period_days, today, df_kpi,
          kpi_thresh, forecast, predicted_failure_date, days_remaining,
          runs, file_cols, file_rows, trend_eqs, trend_floors, trend_result,
          floor_series, uploaded, maint_file, maint_df, maint_table_state,
          sel_eqs, pressed, uids, base_at_press, clock, files, written>>

-----------------------------------------------------------------------------
(* Missing values *)

NaN == <<>>
None == <<>>
Num(v) == <<v>>
IsNaN(x) == x = NaN
IsNone(x) == x = None
Val(x) == x[1]

\* the variables outside the page that runs
\* the intake variables of a run that starts from an accepted table
IntakeIdle ==
    /\ file_cols = {}
    /\ file_rows = <<>>
    /\ trend_eqs = {}
    /\ trend_floors = {}
    /\ trend_result = "none"
    /\ floor_series = <<>>

\* the tracker variables while another page runs
TrackerIdle ==
    /\ uploaded = FALSE
    /\ maint_file = <<>>
    /\ maint_df = None
    /\ maint_table_state = None
    /\ sel_eqs = {}
    /\ pressed = "none"
    /\ uids = {}
    /\ base_at_press = <<>>

\* the report folder before any report is saved
ReportIdle ==
    /\ clock = 0
    /\ files = <<>>
    /\ written = <<>>

SideIdle ==
    /\ IntakeIdle
    /\ TrackerIdle
    /\ ReportIdle

OtherIdle ==
    /\ runs = 1
    /\ SideIdle

\* the forecast variables of a run of another page
ForecastIdle ==
    /\ page = "none"
    /\ series_rows = <<>>
    /\ selected_kpi = <<>>
    /\ period_days = 0
    /\ today = 0
    /\ df_kpi = <<>>
    /\ kpi_thresh = <<None, None>>
    /\ forecast = <<>>
    /\ predicted_failure_date = None
    /\ days_remaining = None

-----------------------------------------------------------------------------
(* Bounds and inputs of the trend page *)

MaxLen == 4

READINGS == {20, 30, 40, 50, 80}

\* the series of the specification's worked example
ExampleSeries == <<Num(30), Num(35), Num(80), Num(40), Num(38)>>

Cells == {NaN} \cup {Num(v) : v \in READINGS}

SeriesOfLen(n) == [1..n -> Cells]

SeriesInputs == UNION {SeriesOfLen(n) : n \in 0..MaxLen} \cup {ExampleSeries}

\* doorfriction's row of KPI_THRESHOLDS and its one-sided and unbounded shapes
ThreshInputs == {<<lo, hi>> : lo \in {None, Num(30)}, hi \in {None, Num(50)}}

\* slider 0.5 .. 3.0 step 0.1, default 1.0: its two ends and its default
FactorInputs == {5, 10, 30}

-----------------------------------------------------------------------------
(* numpy helpers over a series with NaN *)

RECURSIVE SumSeq(_)
SumSeq(s) == IF s = <<>> THEN 0 ELSE Head(s) + SumSeq(Tail(s))

NonNaN(arr) == SelectSeq(arr, LAMBDA x : ~IsNaN(x))

Nums(arr) == [i \in 1..Len(NonNaN(arr)) |-> Val(NonNaN(arr)[i])]

Squares(s) == [i \in 1..Len(s) |-> s[i] * s[i]]

AllNaN(arr) == \A i \in 1..Len(arr) : IsNaN(arr[i])

\* m * m * variance of the non-NaN values, m their count (np.nanstd, ddof = 0):
\* std = sqrt(ScaledVar) / m and mean = SumSeq / m
ScaledVar(arr) ==
    LET xs == Nums(arr)
        m == Len(xs)
    IN  m * SumSeq(Squares(xs)) - SumSeq(xs) * SumSeq(xs)

\* a plausible slip: upper_stat = mean + std / std_factor
GtUpperStatDivided(b, arr, k) ==
    LET xs == Nums(arr)
        lhs == 10 * (Len(xs) * b - SumSeq(xs))
    IN  lhs > 0 /\ ((k * lhs) \div 10) * ((k * lhs) \div 10) > 100 * ScaledVar(arr)

\* b > upper_stat, upper_stat = mean + std_factor * std.  Multiplied by 10 * m:
\* 10 * (m * b - S) > k * sqrt(ScaledVar), with k the factor in tenths.
GtUpperStat(b, arr, k) ==
    LET xs == Nums(arr)
        lhs == 10 * (Len(xs) * b - SumSeq(xs))
    IN  lhs > 0 /\ lhs * lhs > k * k * ScaledVar(arr)

\* b < lower_stat, lower_stat = mean - std_factor * std
LtLowerStat(b, arr, k) ==
    LET xs == Nums(arr)
        lhs == 10 * (SumSeq(xs) - Len(xs) * b)
    IN  lhs > 0 /\ lhs * lhs > k * k * ScaledVar(arr)

-----------------------------------------------------------------------------
(* pages/1_Trend_Analyzer.py: detect_peaks_lows *)

\* a plausible slip: non-strict comparison with the neighbours
PeakTestNonStrict(a, b, c, high_thresh, arr, k) ==
    /\ b >= a
    /\ b >= c
    /\ \/ (~IsNone(high_thresh) /\ b > Val(high_thresh))
       \/ GtUpperStat(b, arr, k)

\* a plausible slip: the statistical band required as well as the threshold
PeakTestBoth(a, b, c, high_thresh, arr, k) ==
    /\ b > a
    /\ b > c
    /\ (IsNone(high_thresh) \/ b > Val(high_thresh))
    /\ GtUpperStat(b, arr, k)

\* line 132: the condition under which index i is appended to peaks
PeakTest(a, b, c, high_thresh, arr, k) ==
    /\ b > a
    /\ b > c
    /\ \/ (~IsNone(high_thresh) /\ b > Val(high_thresh))
       \/ GtUpperStat(b, arr, k)

\* a plausible slip: the threshold breach alone flags a low
LowTestNoExtremum(a, b, c, low_thresh, arr, k) ==
    \/ (~IsNone(low_thresh) /\ b < Val(low_thresh))
    \/ (b < a /\ b < c /\ LtLowerStat(b, arr, k))

\* line 134: the condition under which index i is appended to lows
LowTest(a, b, c, low_thresh, arr, k) ==
    /\ b < a
    /\ b < c
    /\ \/ (~IsNone(low_thresh) /\ b < Val(low_thresh))
       \/ LtLowerStat(b, arr, k)

\* a plausible slip: the 1-based position is appended instead of the index
RECURSIVE DetectLoopOneBased(_, _, _, _, _, _, _)
DetectLoopOneBased(arr, i, low_thresh, high_thresh, k, pk, lw) ==
    IF i >= Len(arr) - 1
    THEN <<pk, lw>>
    ELSE LET a == arr[i]
             b == arr[i + 1]
             c == arr[i + 2]
             ok == ~IsNaN(b) /\ ~IsNaN(a) /\ ~IsNaN(c)
             isPeak == ok /\ PeakTest(Val(a), Val(b), Val(c), high_thresh, arr, k)
             isLow == ok /\ LowTest(Val(a), Val(b), Val(c), low_thresh, arr, k)
         IN  DetectLoopOneBased(arr, i + 1, low_thresh, high_thresh, k,
                                IF isPeak THEN Append(pk, i + 1) ELSE pk,
                                IF isLow THEN Append(lw, i + 1) ELSE lw)

\* lines 128-135: for i in range(1, n-1).  i is the code's 0-based index; the
\* code's arr[i-1], arr[i], arr[i+1] are arr[i], arr[i+1], arr[i+2] of the
\* 1-based tuple.
RECURSIVE DetectLoop(_, _, _, _, _, _, _)
DetectLoop(arr, i, low_thresh, high_thresh, k, pk, lw) ==
    IF i >= Len(arr) - 1
    THEN <<pk, lw>>
    ELSE LET a == arr[i]
             b == arr[i + 1]
             c == arr[i + 2]
             ok == ~IsNaN(b) /\ ~IsNaN(a) /\ ~IsNaN(c)
             isPeak == ok /\ PeakTest(Val(a), Val(b), Val(c), high_thresh, arr, k)
             isLow == ok /\ LowTest(Val(a), Val(b), Val(c), low_thresh, arr, k)
         IN  DetectLoop(arr, i + 1, low_thresh, high_thresh, k,
                        IF isPeak THEN Append(pk, i) ELSE pk,
                        IF isLow THEN Append(lw, i) ELSE lw)

\* a plausible slip: every index is visited and a missing neighbour counts as
\* smaller (larger) than the point
RECURSIVE EdgeLoop(_, _, _, _, _, _, _)
EdgeLoop(arr, i, low_thresh, high_thresh, k, pk, lw) ==
    IF i >= Len(arr)
    THEN <<pk, lw>>
    ELSE LET b == arr[i + 1]
             hasA == i >= 1 /\ ~IsNaN(arr[i])
             hasC == i + 2 <= Len(arr) /\ ~IsNaN(arr[i + 2])
             isPeak == /\ ~IsNaN(b)
                       /\ hasA => Val(b) > Val(arr[i])
                       /\ hasC => Val(b) > Val(arr[i + 2])
                       /\ \/ (~IsNone(high_thresh) /\ Val(b) > Val(high_thresh))
                          \/ GtUpperStat(Val(b), arr, k)
             isLow == /\ ~IsNaN(b)
                      /\ hasA => Val(b) < Val(arr[i])
                      /\ hasC => Val(b) < Val(arr[i + 2])
                      /\ \/ (~IsNone(low_thresh) /\ Val(b) < Val(low_thresh))
                         \/ LtLowerStat(Val(b), arr, k)
         IN  EdgeLoop(arr, i + 1, low_thresh, high_thresh, k,
                      IF isPeak THEN Append(pk, i) ELSE pk,
                      IF isLow THEN Append(lw, i) ELSE lw)

detect_peaks_lows_edges(vals, low_thresh, high_thresh, k) ==
    IF AllNaN(vals)
    THEN << <<>>, <<>> >>
    ELSE EdgeLoop(vals, 0, low_thresh, high_thresh, k, <<>>, <<>>)

\* lines 120-136
detect_peaks_lows(vals, low_thresh, high_thresh, k) ==
    IF Len(vals) < 3 \/ AllNaN(vals)
    THEN << <<>>, <<>> >>
    ELSE DetectLoop(vals, 1, low_thresh, high_thresh, k, <<>>, <<>>)

-----------------------------------------------------------------------------
(* pages/1_Trend_Analyzer.py: point_status *)

\* a plausible slip: strict comparisons with the bounds
point_status_strict(value, th) ==
    IF IsNaN(value)
    THEN "nodata"
    ELSE LET low == th[1]
             high == th[2]
             v == Val(value)
         IN  IF ~IsNone(low) /\ ~IsNone(high)
             THEN IF Val(low) < v /\ v < Val(high) THEN "ok" ELSE "corrective"
             ELSE IF IsNone(low) /\ ~IsNone(high)
             THEN IF v < Val(high) THEN "ok" ELSE "corrective"
             ELSE IF ~IsNone(low) /\ IsNone(high)
             THEN IF v > Val(low) THEN "ok" ELSE "corrective"
             ELSE "corrective"

\* lines 138-148
point_status(value, th) ==
    IF IsNaN(value)
    THEN "nodata"
    ELSE LET low == th[1]
             high == th[2]
             v == Val(value)
         IN  IF ~IsNone(low) /\ ~IsNone(high)
             THEN IF Val(low) <= v /\ v <= Val(high) THEN "ok" ELSE "corrective"
             ELSE IF IsNone(low) /\ ~IsNone(high)
             THEN IF v <= Val(high) THEN "ok" ELSE "corrective"
             ELSE IF ~IsNone(low) /\ IsNone(high)
             THEN IF v >= Val(low) THEN "ok" ELSE "corrective"
             ELSE "corrective"

-----------------------------------------------------------------------------
(* The trend page plotting one series: lines 289-336 *)

Init ==
    /\ pc = "ready"
    /\ values \in SeriesInputs
    /\ thresh \in ThreshInputs
    /\ std_factor \in FactorInputs
    /\ statuses = <<>>
    /\ peaks = <<>>
    /\ lows = <<>>
    /\ kpi_summary = <<>>
    /\ df = <<>>
    /\ selected_eq = {}
    /\ selected_kpis = {}
    /\ slider = <<>>
    /\ df_filtered = <<>>
    /\ weights = <<>>
    /\ stats = <<>>
    /\ eq_health = <<>>
    /\ ForecastIdle
    /\ OtherIdle

\* a plausible slip: the list of an earlier run is kept
SummaryKept(prev, rec) == Append(prev, rec)

\* line 277 (kpi_summary = []) and lines 330-336: the list is emptied at the
\* start of a run, then gets the record of the series
SummaryAfter(prev, rec) == Append(<<>>, rec)

\* lines 277-336 for one series: the marker status of every point, the
\* detector, the record of the summary
PlotRun ==
    /\ statuses' = [i \in 1..Len(values) |-> point_status(values[i], thresh)]
    /\ LET res == detect_peaks_lows(values, thresh[1], thresh[2], std_factor)
       IN  /\ peaks' = res[1]
           /\ lows' = res[2]
    /\ kpi_summary' = SummaryAfter(kpi_summary,
                           [peaks |-> Len(peaks'), lows |-> Len(lows'), rows |-> Len(values)])

PlotFloor ==
    /\ pc = "ready"
    /\ PlotRun
    /\ pc' = "done"
    /\ UNCHANGED <<values, thresh, std_factor>>
    /\ UNCHANGED healthVars
    /\ UNCHANGED forecastVars
    /\ UNCHANGED otherVars

Next == PlotFloor

Spec == Init /\ [][Next]_vars

-----------------------------------------------------------------------------
(* Vocabulary of the claims about the trend page *)

InList(s, i) == \E j \in 1..Len(s) : s[j] = i

\* the value at the code's 0-based index i
At(i) == values[i + 1]

Low == thresh[1]
High == thresh[2]

\* i is an interior index whose value and both neighbours are present
InteriorPresent(i) ==
    /\ 1 <= i
    /\ i <= Len(values) - 2
    /\ ~IsNaN(At(i - 1))
    /\ ~IsNaN(At(i))
    /\ ~IsNaN(At(i + 1))

\* The statistical band, stated from the definition of the standard deviation
\* as the root of the mean squared deviation of the non-null values x_1..x_m:
\* with S their sum, m^3 * std^2 = sum over j of (m * x_j - S)^2, so
\* b > mean + (k/10) * std  iff  m*b - S > 0 and
\* 100 * m * (m*b - S)^2 > k^2 * sum over j of (m * x_j - S)^2.
SqDev(xs) ==
    LET S == SumSeq(xs)
        m == Len(xs)
    IN  SumSeq([j \in 1..m |-> (m * xs[j] - S) * (m * xs[j] - S)])

AboveBand(b) ==
    LET xs == Nums(values)
        d == Len(xs) * b - SumSeq(xs)
    IN  d > 0 /\ 100 * Len(xs) * d * d > std_factor * std_factor * SqDev(xs)

BelowBand(b) ==
    LET xs == Nums(values)
        d == SumSeq(xs) - Len(xs) * b
    IN  d > 0 /\ 100 * Len(xs) * d * d > std_factor * std_factor * SqDev(xs)

StrictLocalMax(i) == Val(At(i)) > Val(At(i - 1)) /\ Val(At(i)) > Val(At(i + 1))
StrictLocalMin(i) == Val(At(i)) < Val(At(i - 1)) /\ Val(At(i)) < Val(At(i + 1))

\* C1: an interior index with present value and neighbours is in peaks iff it
\* is a strict local maximum and (the high bound is defined and exceeded, or
\* the value exceeds mean + k*std over the non-null values).
C1_PeakIff ==
    pc = "done" =>
        \A i \in 0..(Len(values) - 1) :
            InteriorPresent(i) =>
                (InList(peaks, i) <=>
                    /\ StrictLocalMax(i)
                    /\ \/ (~IsNone(High) /\ Val(At(i)) > Val(High))
                       \/ AboveBand(Val(At(i))))

\* a peak that stays inside the domain thresholds, flagged by the band alone
C1_Witness ==
    /\ pc = "done"
    /\ \E i \in 0..(Len(values) - 1) :
        /\ InList(peaks, i)
        /\ ~IsNone(High)
        /\ Val(At(i)) <= Val(High)

\* C2: an interior index with present value and neighbours is in lows iff it
\* is a strict local minimum and (the low bound is defined and undercut, or
\* the value is below mean - k*std over the non-null values).
C2_LowIff ==
    pc = "done" =>
        \A i \in 0..(Len(values) - 1) :
            InteriorPresent(i) =>
                (InList(lows, i) <=>
                    /\ StrictLocalMin(i)
                    /\ \/ (~IsNone(Low) /\ Val(At(i)) < Val(Low))
                       \/ BelowBand(Val(At(i))))

\* a low that undercuts the low bound without leaving the statistical band
C2_Witness ==
    /\ pc = "done"
    /\ ~IsNone(Low)
    /\ \E i \in 0..(Len(values) - 1) :
        /\ InList(lows, i)
        /\ Val(At(i)) < Val(Low)
        /\ ~BelowBand(Val(At(i)))

\* C3: a series of length 0, 1 or 2 yields no peak and no low.
C3_ShortSeriesEmpty ==
    (pc = "done" /\ Len(values) < 3) => (peaks = <<>> /\ lows = <<>>)

\* a two-point series whose larger point breaches the high bound
C3_Witness ==
    /\ pc = "done"
    /\ Len(values) = 2
    /\ ~IsNaN(values[1])
    /\ ~IsNaN(values[2])
    /\ ~IsNone(High)
    /\ Val(values[2]) > Val(values[1])
    /\ Val(values[2]) > Val(High)
    /\ peaks = <<>>
    /\ lows = <<>>

Flagged(i) == InList(peaks, i) \/ InList(lows, i)

\* C4: the first and the last index, an index without value or with a
\* neighbour without value, an index equal to a neighbour, and an index that
\* is no strict local extremum (whatever its threshold breach) are not flagged.
C4_NeverFlagged ==
    pc = "done" =>
        \A i \in 0..(Len(values) - 1) :
            \/ ~Flagged(i)
            \/ /\ InteriorPresent(i)
               /\ At(i) # At(i - 1)
               /\ At(i) # At(i + 1)
               /\ InList(peaks, i) => StrictLocalMax(i)
               /\ InList(lows, i) => StrictLocalMin(i)

\* a plateau above the high bound and a last point above it, none flagged
C4_Witness ==
    /\ pc = "done"
    /\ ~IsNone(High)
    /\ Len(values) >= 3
    /\ \E i \in 1..(Len(values) - 2) :
        /\ InteriorPresent(i)
        /\ Val(At(i)) > Val(High)
        /\ At(i) = At(i + 1)
        /\ Val(At(i)) > Val(At(i - 1))
        /\ ~Flagged(i)
        /\ ~Flagged(i + 1)

\* C5: [30, 35, 80, 40, 38] with threshold (30, 50) and k = 1.0 gives
\* peaks = [2] and lows = [].
C5_Example ==
    (/\ pc = "done"
     /\ values = ExampleSeries
     /\ thresh = <<Num(30), Num(50)>>
     /\ std_factor = 10)
        => (peaks = <<2>> /\ lows = <<>>)

C5_Witness ==
    /\ pc = "done"
    /\ values = ExampleSeries
    /\ thresh = <<Num(30), Num(50)>>
    /\ std_factor = 10
    /\ peaks = <<2>>

\* C6: point_status is nodata for a missing value; otherwise ok iff the value
\* is within the bounds that are present (bounds included), never ok when no
\* bound is present, and corrective whenever it is neither nodata nor ok.
C6_PointStatus ==
    pc = "done" =>
        \A i \in 1..Len(values) :
            LET v == values[i]
                within ==
                    /\ ~IsNone(Low) \/ ~IsNone(High)
                    /\ ~IsNone(Low) => Val(v) >= Val(Low)
                    /\ ~IsNone(High) => Val(v) <= Val(High)
            IN  /\ Len(statuses) = Len(values)
                /\ IsNaN(v) => statuses[i] = "nodata"
                /\ ~IsNaN(v) => (statuses[i] = "ok" <=> within)
                /\ (~IsNaN(v) /\ ~within) => statuses[i] = "corrective"

\* values exactly on the low and on the high bound, both ok
C6_Witness ==
    /\ pc = "done"
    /\ ~IsNone(Low)
    /\ ~IsNone(High)
    /\ \E i \in 1..Len(values) : values[i] = Low /\ statuses[i] = "ok"
    /\ \E i \in 1..Len(values) : values[i] = High /\ statuses[i] = "ok"

-----------------------------------------------------------------------------
(* pages/6_Equipment_Health_Score.py: text.  A name is a tuple of characters. *)

UpperChars == <<"A", "B", "C", "D", "E", "F", "G", "H", "I", "J", "K", "L", "M", "N",
               "O", "P", "Q", "R", "S", "T", "U", "V", "W", "X", "Y", "Z">>

LowerChars == <<"a", "b", "c", "d", "e", "f", "g", "h", "i", "j", "k", "l", "m", "n",
               "o", "p", "q", "r", "s", "t", "u", "v", "w", "x", "y", "z">>

DigitChars == {"0", "1", "2", "3", "4", "5", "6", "7", "8", "9"}

\* str.lower() of one character
ToLower(ch) ==
    IF \E i \in 1..Len(UpperChars) : UpperChars[i] = ch
    THEN LowerChars[CHOOSE i \in 1..Len(UpperChars) : UpperChars[i] = ch]
    ELSE ch

\* str.isalnum() of one (lower-cased) character
IsAlnum(ch) ==
    \/ \E i \in 1..Len(LowerChars) : LowerChars[i] = ch
    \/ \E i \in 1..Len(UpperChars) : UpperChars[i] = ch
    \/ ch \in DigitChars

\* lines 93-95
normalize_text(name) ==
    SelectSeq([i \in 1..Len(name) |-> ToLower(name[i])], IsAlnum)

\* lines 139-146
MAIN_KPIS == <<
    <<"d", "o", "o", "r", "f", "r", "i", "c", "t", "i", "o", "n">>,
    <<"c", "u", "m", "u", "l", "a", "t", "i", "v", "e", "d", "o", "o", "r", "s", "p", "e", "e", "d", "e", "r", "r", "o", "r">>,
    <<"l", "o", "c", "k", "h", "o", "o", "k", "c", "l", "o", "s", "i", "n", "g", "t", "i", "m", "e">>,
    <<"l", "o", "c", "k", "h", "o", "o", "k", "t", "i", "m", "e">>,
    <<"m", "a", "x", "i", "m", "u", "m", "f", "o", "r", "c", "e", "d", "u", "r", "i", "n", "g", "c", "o", "m", "p", "r", "e", "s", "s">>,
    <<"l", "a", "n", "d", "i", "n", "g", "d", "o", "o", "r", "l", "o", "c", "k", "r", "o", "l", "l", "e", "r", "c", "l", "e", "a", "r", "a", "n", "c", "e">>
>>

Range(f) == {f[x] : x \in DOMAIN f}

-----------------------------------------------------------------------------
(* Inputs of the health page *)

\* the eq column of the uploaded file
EQS == {"E1", "E2"}

\* the ckpi column of the uploaded file: display names of two main KPIs
DisplayKpis == {
    <<"D", "o", "o", "r", " ", "F", "r", "i", "c", "t", "i", "o", "n">>,
    <<"l", "o", "c", "k", "H", "o", "o", "k", "T", "i", "m", "e">>
}

GroupKeys == EQS \X DisplayKpis

\* line 135: the _ckpi_norm column, normalize_text of every name of the file
ckpi_norm == [x \in DisplayKpis |-> normalize_text(x)]

\* the ave readings of one (eq, ckpi) group of the file: no row, a row
\* without value, one reading, equal readings, two readings 1, 3, 5 and 10
\* apart, and three readings
GroupInputs == {
    <<>>,
    <<NaN>>,
    <<Num(5)>>,
    <<Num(5), Num(5)>>,
    <<Num(0), Num(1)>>,
    <<Num(0), Num(3)>>,
    <<Num(0), Num(5)>>,
    <<Num(0), Num(10)>>,
    <<Num(0), Num(5), Num(10)>>
}

\* st.sidebar.slider(label, 0.0, 1.0, base, 0.05) in sixtieths: 0.0, 0.5, 1.0
SliderInputs == {0, 30, 60}

\* 1.0 in sixtieths
One == 60

-----------------------------------------------------------------------------
(* pages/6_Equipment_Health_Score.py: KPI weights, lines 209-229.           *)
(* A weight is held in sixtieths before the normalization and as the       *)
(* fraction <<numerator, denominator>> after it.                           *)

RECURSIVE SumOver(_, _)
SumOver(f, S) ==
    IF S = {}
    THEN 0
    ELSE LET x == CHOOSE y \in S : TRUE
         IN  f[x] + SumOver(f, S \ {x})

\* line 211
selected_kpi_norms(sel) == {ckpi_norm[x] : x \in sel}

\* lines 212-224: the sliders of the selected KPIs, or 1/6 for each main KPI
RawWeights(sel, sl) ==
    IF sel # {}
    THEN [k \in selected_kpi_norms(sel) |-> sl[k]]
    ELSE [k \in Range(MAIN_KPIS) |-> One \div Len(MAIN_KPIS)]

\* a plausible slip: the weights are taken to sum to 1.0 already
total_w_one(raw) == One

\* line 227
total_w(raw) ==
    IF SumOver(raw, DOMAIN raw) > 0 THEN SumOver(raw, DOMAIN raw) ELSE One

\* lines 228-229
NormalizedWeights(raw) == [k \in DOMAIN raw |-> <<raw[k], total_w(raw)>>]

-----------------------------------------------------------------------------
(* pages/6_Equipment_Health_Score.py: per-group statistics, lines 253-268.  *)
(* A standard deviation is held by its square as a fraction <<n, d>>.       *)
(* A score is held in hundredths (100.00 is 10000).                         *)

\* .agg(std_ave=("ave", "std")): the sample standard deviation (ddof = 1) of
\* the non-NaN readings, NaN when there are fewer than two of them
std_ave(cells) ==
    LET xs == Nums(cells)
        c == Len(xs)
    IN  IF c < 2
        THEN NaN
        ELSE Num(<<c * SumSeq(Squares(xs)) - SumSeq(xs) * SumSeq(xs), c * (c - 1)>>)

FracLeq(a, b) == a[1] * b[2] <= b[1] * a[2]

\* line 261: the largest std of the table, NaN skipped, 0.0 when all are NaN
max_std(stds) ==
    LET present == {Val(x) : x \in {y \in stds : ~IsNaN(y)}}
    IN  IF present = {}
        THEN <<0, 1>>
        ELSE CHOOSE m \in present : \A x \in present : FracLeq(x, m)

\* floor(a * 10^steps / b) by long division, the remainder kept: <<quotient,
\* remainder>> from <<a div b, a mod b>>
RECURSIVE LongDiv(_, _, _, _)
LongDiv(q, r, b, steps) ==
    IF steps = 0
    THEN <<q, r>>
    ELSE LongDiv(q * 10 + ((r * 10) \div b), (r * 10) % b, b, steps - 1)

\* floor(sqrt(n)) by bisection, lo * lo <= n < hi * hi
RECURSIVE ISqrt(_, _, _)
ISqrt(n, lo, hi) ==
    IF hi - lo <= 1
    THEN lo
    ELSE LET mid == (lo + hi) \div 2
         IN  IF mid * mid <= n THEN ISqrt(n, mid, hi) ELSE ISqrt(n, lo, mid)

\* lines 262-264 for a group whose std is a number and a table whose max_std
\* is positive: round(100 - 100 * std / (max_std + 1e-9), 2) in hundredths.
\* With t = 10000 * std / max_std the result is 10000 - R, R the integer
\* nearest to t; the epsilon makes the quotient a little smaller than t, so an
\* exact half rounds R down.  4 * t * t = 4 * 10^8 * (n * dm) / (d * nm).
ScoreOfRatio(sd, mx) ==
    LET a == 4 * sd[1] * mx[2]
        b == sd[2] * mx[1]
        qr == LongDiv(a \div b, a % b, b, 8)
        s == ISqrt(qr[1], 0, 20001)
        exact == qr[2] = 0 /\ s * s = qr[1]
        R == IF exact THEN s \div 2 ELSE (s + 1) \div 2
    IN  10000 - R

Clip(x, lo, hi) == IF x < lo THEN lo ELSE IF x > hi THEN hi ELSE x

\* lines 262-264: norm_std = std_ave / (max_std + 1e-9) and
\* HealthScoreKPI = (100 - norm_std * 100).clip(0, 100).round(2)
HealthScoreKPI(sd, mx) ==
    IF IsNaN(sd)
    THEN NaN
    ELSE IF mx[1] = 0
    THEN Num(Clip(10000, 0, 10000))
    ELSE Num(Clip(ScoreOfRatio(Val(sd), mx), 0, 10000))

\* line 262: std_ave / (max_std + 1e-9), held unevaluated as the pair of the
\* std and of the max_std it is divided by; NaN when the std is NaN
norm_std(sd, mx) == IF IsNaN(sd) THEN NaN ELSE Num(<<Val(sd), mx>>)

\* line 268: stats["_ckpi_norm"].map(weights).fillna(0.0)
WeightOf(w, k) == IF k \in DOMAIN w THEN w[k] ELSE <<0, One>>

\* lines 254-268: one row per (eq, ckpi) group that has a row in df_filtered
Stats(dff, w) ==
    LET groups == {g \in DOMAIN dff : dff[g] # <<>>}
        mx == max_std({std_ave(dff[g]) : g \in groups})
    IN  [g \in groups |->
            [ckpi_norm |-> ckpi_norm[g[2]],
             cnt |-> Len(Nums(dff[g])),
             std_ave |-> std_ave(dff[g]),
             norm_std |-> norm_std(std_ave(dff[g]), mx),
             HealthScoreKPI |-> HealthScoreKPI(std_ave(dff[g]), mx),
             Weight |-> WeightOf(w, ckpi_norm[g[2]])]]

-----------------------------------------------------------------------------
(* pages/6_Equipment_Health_Score.py: per-equipment health, lines 269-284 *)

\* n / d rounded to the nearest integer, an exact half to the even one
\* (numpy's round), for n >= 0 and d > 0
RoundHalfEven(n, d) ==
    LET q == n \div d
        r == n % d
    IN  IF 2 * r < d THEN q
        ELSE IF 2 * r > d THEN q + 1
        ELSE IF q % 2 = 0 THEN q ELSE q + 1

\* line 271, the value the lambda returns for the rows st of one equipment:
\* np.average(HealthScoreKPI, weights=Weight) when Weight.sum() > 0, NaN as
\* soon as one score is NaN; otherwise HealthScoreKPI.mean(), which skips
\* NaN and is NaN when no score is left.  The result is a fraction.
GroupHealth(st, groups) ==
    LET wnum == [g \in groups |-> st[g].Weight[1]]
        scored == {g \in groups : ~IsNaN(st[g].HealthScoreKPI)}
    IN  IF SumOver(wnum, groups) > 0
        THEN IF scored # groups
             THEN NaN
             ELSE Num(<<SumOver([g \in groups |->
                                    Val(st[g].HealthScoreKPI) * wnum[g]], groups),
                        SumOver(wnum, groups)>>)
        ELSE IF scored = {}
             THEN NaN
             ELSE Num(<<SumOver([g \in scored |-> Val(st[g].HealthScoreKPI)], scored),
                        Cardinality(scored)>>)

\* lines 274 and 277: .fillna(0).round(2), in hundredths
HealthScore(st, groups) ==
    LET h == GroupHealth(st, groups)
    IN  IF IsNaN(h) THEN 0 ELSE RoundHalfEven(Val(h)[1], Val(h)[2])

\* a plausible slip: open lower edges
HealthStatusOpen(score) ==
    IF score > 8500 THEN "Excellent"
    ELSE IF score > 7000 /\ score < 8500 THEN "NeedsMonitoring"
    ELSE IF score < 7000 THEN "Critical"
    ELSE "Unknown"

\* a plausible slip: a score of exactly 0 left without a band
HealthStatusPositive(score) ==
    IF score >= 8500 THEN "Excellent"
    ELSE IF score >= 7000 /\ score < 8500 THEN "NeedsMonitoring"
    ELSE IF score < 7000 /\ score > 0 THEN "Critical"
    ELSE "Unknown"

\* lines 278-284: np.select(conds, choices, default="Unknown")
HealthStatus(score) ==
    IF score >= 8500 THEN "Excellent"
    ELSE IF score >= 7000 /\ score < 8500 THEN "NeedsMonitoring"
    ELSE IF score < 7000 THEN "Critical"
    ELSE "Unknown"

\* lines 270-284: one row per equipment that has a row in stats
EqHealth(st) ==
    LET eqs == {g[1] : g \in DOMAIN st}
    IN  [e \in eqs |->
            LET groups == {g \in DOMAIN st : g[1] = e}
                score == HealthScore(st, groups)
            IN  [HealthScore |-> score, HealthStatus |-> HealthStatus(score)]]

-----------------------------------------------------------------------------
(* The health page: one run of the script from the sidebar to the summary *)

\* a filter that lets every row pass
MaskNone(d, eqs, kpis) == d

\* lines 238-245: the rows whose eq and ckpi are selected; the date range is
\* at its full extent (preset "Custom" with its default, lines 181-186)
Mask(d, eqs, kpis) ==
    [g \in DOMAIN d |-> IF g[1] \in eqs /\ g[2] \in kpis THEN d[g] ELSE <<>>]

\* line 246: df_filtered.empty
Empty(dff) == \A g \in DOMAIN dff : dff[g] = <<>>

\* the readings of a group that the filters hide: no row, or two readings
\* further apart than any of GroupInputs
HiddenInputs == {<<>>, <<Num(0), Num(20)>>}

HealthInit ==
    /\ pc = "sidebar"
    /\ selected_eq \in SUBSET EQS
    /\ selected_kpis \in SUBSET DisplayKpis
    /\ slider \in [selected_kpi_norms(selected_kpis) -> SliderInputs]
    /\ df \in [GroupKeys -> GroupInputs \cup HiddenInputs]
    /\ \A g \in GroupKeys :
          IF g[1] \in selected_eq /\ g[2] \in selected_kpis
          THEN df[g] \in GroupInputs
          ELSE df[g] \in HiddenInputs
    /\ df_filtered = <<>>
    /\ weights = <<>>
    /\ stats = <<>>
    /\ eq_health = <<>>
    /\ ForecastIdle
    /\ values = <<>>
    /\ thresh = <<None, None>>
    /\ std_factor = 10
    /\ statuses = <<>>
    /\ peaks = <<>>
    /\ lows = <<>>
    /\ kpi_summary = <<>>
    /\ OtherIdle

\* lines 209-248: the weights are normalized, df_filtered is empty, st.stop()
HealthStop ==
    /\ pc = "sidebar"
    /\ df_filtered' = Mask(df, selected_eq, selected_kpis)
    /\ Empty(df_filtered')
    /\ weights' = NormalizedWeights(RawWeights(selected_kpis, slider))
    /\ pc' = "stopped"
    /\ UNCHANGED <<df, selected_eq, selected_kpis, slider, stats, eq_health>>
    /\ UNCHANGED trendVars
    /\ UNCHANGED forecastVars
    /\ UNCHANGED otherVars

\* lines 209-284: the weights, the group statistics and the equipment health
HealthCompute ==
    /\ pc = "sidebar"
    /\ df_filtered' = Mask(df, selected_eq, selected_kpis)
    /\ ~Empty(df_filtered')
    /\ weights' = NormalizedWeights(RawWeights(selected_kpis, slider))
    /\ stats' = Stats(df_filtered', weights')
    /\ eq_health' = EqHealth(stats')
    /\ pc' = "scored"
    /\ UNCHANGED <<df, selected_eq, selected_kpis, slider>>
    /\ UNCHANGED trendVars
    /\ UNCHANGED forecastVars
    /\ UNCHANGED otherVars

HealthNext == HealthStop \/ HealthCompute

SpecHealth == HealthInit /\ [][HealthNext]_vars

-----------------------------------------------------------------------------
(* Vocabulary of the claims about the health page *)

DoorFriction == CHOOSE x \in DisplayKpis : x[1] = "D"
LockHookTime == CHOOSE x \in DisplayKpis : x[1] = "l"

\* the groups of equipment e in the health output
GroupsOf(e) == {g \in DOMAIN stats : g[1] = e}

\* C7: every health score has exactly one band, with closed lower edges:
\* score >= 85 Excellent, 70 <= score < 85 NeedsMonitoring, score < 70
\* Critical.
C7_Bands ==
    pc = "scored" =>
        \A e \in DOMAIN eq_health :
            LET score == eq_health[e].HealthScore
                status == eq_health[e].HealthStatus
            IN  /\ status \in {"Excellent", "NeedsMonitoring", "Critical"}
                /\ status = "Excellent" <=> score >= 8500
                /\ status = "NeedsMonitoring" <=> (score >= 7000 /\ score < 8500)
                /\ status = "Critical" <=> score < 7000

\* weights 0.5 and 0.5, sub-scores 90 and 50: the score is exactly 70 and the
\* status NeedsMonitoring
C7_Witness ==
    /\ pc = "scored"
    /\ \E e \in DOMAIN eq_health :
        /\ GroupsOf(e) = {<<e, DoorFriction>>, <<e, LockHookTime>>}
        /\ stats[<<e, DoorFriction>>].HealthScoreKPI = Num(9000)
        /\ stats[<<e, LockHookTime>>].HealthScoreKPI = Num(5000)
        /\ stats[<<e, DoorFriction>>].Weight = <<30, 60>>
        /\ stats[<<e, LockHookTime>>].Weight = <<30, 60>>
        /\ eq_health[e].HealthScore = 7000
        /\ eq_health[e].HealthStatus = "NeedsMonitoring"


\* the sub-scores of the groups of e are all numbers
SubScoresDefined(e) == \A g \in GroupsOf(e) : ~IsNaN(stats[g].HealthScoreKPI)

WeightNum(e) == [g \in GroupsOf(e) |-> stats[g].Weight[1]]

HasNonzeroWeight(e) == \E g \in GroupsOf(e) : stats[g].Weight[1] > 0

\* score (in hundredths) is n / d to the two decimals the page reports:
\* |score - n / d| <= 1/2
ToTwoDecimals(score, n, d) ==
    /\ 2 * (score * d - n) <= d
    /\ 2 * (n - score * d) <= d

\* C8: for every equipment with a KPI group of nonzero weight, the health
\* score is the weighted mean of the sub-scores of its KPI groups,
\* sum(weight * sub_score) / sum(weight).
C8_WeightedMean ==
    pc = "scored" =>
        \A e \in DOMAIN eq_health :
            HasNonzeroWeight(e) =>
                /\ SubScoresDefined(e)
                /\ ToTwoDecimals(
                       eq_health[e].HealthScore,
                       SumOver([g \in GroupsOf(e) |->
                                   Val(stats[g].HealthScoreKPI) * WeightNum(e)[g]],
                               GroupsOf(e)),
                       SumOver(WeightNum(e), GroupsOf(e)))

\* C9: for every equipment without a KPI group of nonzero weight, the health
\* score is the unweighted mean of the sub-scores of its KPI groups.
C9_UnweightedMean ==
    pc = "scored" =>
        \A e \in DOMAIN eq_health :
            ~HasNonzeroWeight(e) =>
                /\ SubScoresDefined(e)
                /\ ToTwoDecimals(
                       eq_health[e].HealthScore,
                       SumOver([g \in GroupsOf(e) |-> Val(stats[g].HealthScoreKPI)],
                               GroupsOf(e)),
                       Cardinality(GroupsOf(e)))

\* the fractions of w have one denominator and their numerators add up to it
SumsToOne(w) ==
    \E k \in DOMAIN w :
        /\ \A j \in DOMAIN w : w[j][2] = w[k][2]
        /\ SumOver([j \in DOMAIN w |-> w[j][1]], DOMAIN w) = w[k][2]

\* C10: with a nonempty selection and positive sliders every normalized
\* weight is >= 0 and the weights of the selected KPIs sum to 1; with an empty
\* selection the six main KPIs have equal weights that sum to 1.
C10_WeightsSumToOne ==
    pc \in {"stopped", "scored"} =>
        /\ (selected_kpis # {} /\ \A k \in DOMAIN slider : slider[k] > 0) =>
               /\ DOMAIN weights = selected_kpi_norms(selected_kpis)
               /\ \A k \in DOMAIN weights : weights[k][1] >= 0 /\ weights[k][2] > 0
               /\ SumsToOne(weights)
        /\ selected_kpis = {} =>
               /\ DOMAIN weights = Range(MAIN_KPIS)
               /\ Cardinality(DOMAIN weights) = 6
               /\ \A j, k \in DOMAIN weights : weights[j] = weights[k]
               /\ \A k \in DOMAIN weights : weights[k][1] > 0
               /\ SumsToOne(weights)

\* two selected KPIs whose sliders 0.5 and 1.0 sum to 1.5 become 1/3 and 2/3
C10_Witness ==
    /\ pc = "scored"
    /\ Cardinality(selected_kpis) = 2
    /\ \E j, k \in DOMAIN weights :
        /\ slider[j] = 30
        /\ slider[k] = 60
        /\ weights[j] = <<30, 90>>
        /\ weights[k] = <<60, 90>>

-----------------------------------------------------------------------------
(* Claims about the per-group statistics of the health page *)

\* the groups that pass the filters of the sidebar, read from the file
VisibleGroups ==
    {g \in GroupKeys : g[1] \in selected_eq /\ g[2] \in selected_kpis /\ df[g] # <<>>}

\* a std (held by its square) that is the number zero
IsZeroStd(sd) == ~IsNaN(sd) /\ Val(sd)[1] = 0

\* C11: a group with fewer than two readings has its standard deviation taken
\* as 0, so its normalized std is 0 and its sub-score is a defined number.
C11_FewPointsStdZero ==
    pc = "scored" =>
        \A g \in DOMAIN stats :
            stats[g].cnt < 2 =>
                /\ IsZeroStd(stats[g].std_ave)
                /\ ~IsNaN(stats[g].norm_std)
                /\ Val(stats[g].norm_std)[1][1] = 0
                /\ ~IsNaN(stats[g].HealthScoreKPI)

\* every row of the group has a reading and all readings are equal
AllIdentical(cells) ==
    /\ cells # <<>>
    /\ \A i \in 1..Len(cells) : ~IsNaN(cells[i]) /\ cells[i] = cells[1]

\* C12: a group whose readings are all identical has std 0 and sub-score
\* exactly 100.00, whatever the other groups of the table are.
C12_IdenticalScores100 ==
    pc = "scored" =>
        \A g \in DOMAIN stats :
            AllIdentical(df_filtered[g]) =>
                /\ IsZeroStd(stats[g].std_ave)
                /\ stats[g].HealthScoreKPI = Num(10000)

\* C13: every sub-score is a defined number between 0 and 100, also for a
\* group with a single reading or with rows that have no value.
C13_SubScoreDefined ==
    pc = "scored" =>
        \A g \in DOMAIN stats :
            /\ ~IsNaN(stats[g].HealthScoreKPI)
            /\ Val(stats[g].HealthScoreKPI) >= 0
            /\ Val(stats[g].HealthScoreKPI) <= 10000

\* C14: every equipment row has a health score between 0 and 100 and one of
\* the statuses Excellent, NeedsMonitoring, Critical; Unknown is never
\* produced.
C14_ScoreAndStatusDefined ==
    pc = "scored" =>
        \A e \in DOMAIN eq_health :
            /\ eq_health[e].HealthScore >= 0
            /\ eq_health[e].HealthScore <= 10000
            /\ eq_health[e].HealthStatus \in {"Excellent", "NeedsMonitoring", "Critical"}
            /\ eq_health[e].HealthStatus # "Unknown"

\* an equipment none of whose sub-scores is a number is reported with 0.00
\* and Critical
C14_Witness ==
    /\ pc = "scored"
    /\ \E e \in DOMAIN eq_health :
          /\ \A g \in GroupsOf(e) : IsNaN(stats[g].HealthScoreKPI)
          /\ eq_health[e].HealthScore = 0
          /\ eq_health[e].HealthStatus = "Critical"

\* m is the largest std of the groups that pass the filters, 0 when none of
\* them has one
IsMaxOfSelection(m) ==
    LET defined == {g \in VisibleGroups : ~IsNaN(std_ave(df[g]))}
    IN  IF defined = {}
        THEN m[1] = 0
        ELSE /\ \E g \in defined : m = Val(std_ave(df[g]))
             /\ \A g \in defined : FracLeq(Val(std_ave(df[g])), m)

-----------------------------------------------------------------------------
(* pages/7_Prediction_Module.py and the forecast section of                 *)
(* pages/6_Equipment_Health_Score.py (lines 314-362).  A date is a day      *)
(* number; a row of the series is read on the day of its index.  A yhat and *)
(* a threshold are held in thousandths of the unit of the KPI.  Prophet is  *)
(* outside the program: its fit is any yhat for every date of the frame.    *)

MaxRows == 11

MaxHorizon == 2

\* page 7 line 77, page 6 line 330: len(...) < 10
MinPoints == 10

\* the rows of the chosen series in the file: up to MaxRows daily rows, all
\* with a value or the first or the last without
SeriesRowsInputs ==
    UNION {{[i \in 1..n |-> IF i = k THEN NaN ELSE Num(40000)] : k \in {0, 1, n}} :
           n \in 0..MaxRows}

\* the ckpi column: names of three KPIs of the table, one of them twice
ForecastKpiInputs == {
    <<"D", "o", "o", "r", " ", "F", "r", "i", "c", "t", "i", "o", "n">>,
    <<"d", "o", "o", "r", "F", "r", "i", "c", "t", "i", "o", "n">>,
    <<"l", "o", "c", "k", "H", "o", "o", "k", "T", "i", "m", "e">>,
    <<"l", "a", "n", "d", "i", "n", "g", "D", "o", "o", "r", "L", "o", "c", "k", "R", "o", "l", "l", "e", "r", "C", "l", "e", "a", "r", "a", "n", "c", "e">>
}

\* the horizon slider, in days
PeriodInputs == 1..MaxHorizon

\* the date of the run: before and after the last row of the file
TodayInputs == {5, 20}

\* values Prophet may predict, around the rows of KPI_THRESHOLDS
YhatInputs == {29, 300, 40000, 60000}

\* page 7 line 70: str.lower()
Lower(name) == [i \in 1..Len(name) |-> ToLower(name[i])]

\* page 7 lines 62-69, in the order of MAIN_KPIS, in thousandths
KPI_THRESHOLDS == <<
    <<Num(30000), Num(50000)>>,
    <<Num(50), Num(80)>>,
    <<Num(200), Num(600)>>,
    <<Num(300), None>>,
    <<Num(5000), Num(28000)>>,
    <<None, Num(29)>>
>>

\* page 7 line 70: KPI_THRESHOLDS.get(key, (None, None))
ThresholdsGet(key) ==
    IF \E i \in 1..Len(MAIN_KPIS) : MAIN_KPIS[i] = key
    THEN KPI_THRESHOLDS[CHOOSE i \in 1..Len(MAIN_KPIS) : MAIN_KPIS[i] = key]
    ELSE <<None, None>>

\* the (ds, y) rows of the series, the row of index i read on day i
Rows(cells) == [i \in 1..Len(cells) |-> [ds |-> i, y |-> cells[i]]]

\* page 7 line 35: df.dropna(subset=["ckpi_statistics_date", "ave"])
DropNa(rows) == SelectSeq(rows, LAMBDA r : ~IsNaN(r.y))

\* page 7 lines 35, 51-55, 73-75: the rows with a value; page 6 lines 325-329:
\* every row of the filtered frame, a row without value included
ProphetFrame(pg, cells) ==
    IF pg = "prediction" THEN DropNa(Rows(cells)) ELSE Rows(cells)

\* m.make_future_dataframe(periods): the dates of the history, then one date
\* a day after the last
FutureDates(frame, periods) ==
    [i \in 1..(Len(frame) + periods) |->
        IF i <= Len(frame) THEN frame[i].ds ELSE frame[Len(frame)].ds + (i - Len(frame))]

\* m.predict(future): a yhat for every date of the frame; the fitted values
\* of the history share a, its last date has b, the horizon has fut
Predict(dates, nhist, a, b, fut) ==
    [i \in 1..Len(dates) |->
        [ds |-> dates[i],
         yhat |-> IF i < nhist THEN a ELSE IF i = nhist THEN b ELSE fut[i - nhist]]]

\* a non-strict search for the breach
PredictedFailureDateNonStrict(fc, low, high) ==
    IF ~IsNone(high)
    THEN LET exceed == SelectSeq(fc, LAMBDA r : r.yhat >= Val(high))
         IN  IF exceed # <<>> THEN Num(exceed[1].ds) ELSE None
    ELSE IF ~IsNone(low)
    THEN LET drop == SelectSeq(fc, LAMBDA r : r.yhat =< Val(low))
         IN  IF drop # <<>> THEN Num(drop[1].ds) ELSE None
    ELSE None

\* page 7 lines 88-96
PredictedFailureDate(fc, low, high) ==
    IF ~IsNone(high)
    THEN LET exceed == SelectSeq(fc, LAMBDA r : r.yhat > Val(high))
         IN  IF exceed # <<>> THEN Num(exceed[1].ds) ELSE None
    ELSE IF ~IsNone(low)
    THEN LET drop == SelectSeq(fc, LAMBDA r : r.yhat < Val(low))
         IN  IF drop # <<>> THEN Num(drop[1].ds) ELSE None
    ELSE None

\* the remaining life counted from the last row of the history
DaysFromLastRow(pfd, td) ==
    IF IsNone(pfd) THEN None ELSE Num(Val(pfd) - Len(series_rows))

\* page 7 lines 166-167: if predicted_failure_date: (it - today).days
DaysRemaining(pfd, td) ==
    IF IsNone(pfd) THEN None ELSE Num(Val(pfd) - td)

ForecastInit ==
    /\ pc = "filters"
    /\ page \in {"prediction", "health"}
    /\ series_rows \in SeriesRowsInputs
    \* page 6 lines 327-329: the equipment is chosen among those with rows
    /\ page = "health" => series_rows # <<>>
    /\ selected_kpi \in ForecastKpiInputs
    /\ period_days \in PeriodInputs
    /\ today \in TodayInputs
    /\ df_kpi = <<>>
    /\ kpi_thresh = <<None, None>>
    /\ forecast = <<>>
    /\ predicted_failure_date = None
    /\ days_remaining = None
    /\ values = <<>>
    /\ thresh = <<None, None>>
    /\ std_factor = 10
    /\ statuses = <<>>
    /\ peaks = <<>>
    /\ lows = <<>>
    /\ kpi_summary = <<>>
    /\ df = <<>>
    /\ selected_eq = {}
    /\ selected_kpis = {}
    /\ slider = <<>>
    /\ df_filtered = <<>>
    /\ weights = <<>>
    /\ stats = <<>>
    /\ eq_health = <<>>
    /\ OtherIdle

\* page 7 lines 57-59: no row is left for the chosen filters, st.stop()
ForecastNoData ==
    /\ pc = "filters"
    /\ page = "prediction"
    /\ ProphetFrame(page, series_rows) = <<>>
    /\ pc' = "nodata"
    /\ UNCHANGED forecastVars
    /\ UNCHANGED trendVars
    /\ UNCHANGED healthVars
    /\ UNCHANGED otherVars

\* page 7 lines 70-79: the thresholds are looked up, then st.warning and
\* st.stop(); page 6 lines 330-331: st.info and the page goes on
ForecastInsufficient ==
    /\ pc = "filters"
    /\ df_kpi' = ProphetFrame(page, series_rows)
    /\ df_kpi' # <<>>
    /\ Len(df_kpi') < MinPoints
    /\ kpi_thresh' = IF page = "prediction"
                     THEN ThresholdsGet(Lower(selected_kpi))
                     ELSE <<None, None>>
    /\ pc' = "insufficient"
    /\ UNCHANGED <<page, series_rows, selected_kpi, period_days, today, forecast,
                   predicted_failure_date, days_remaining>>
    /\ UNCHANGED trendVars
    /\ UNCHANGED healthVars
    /\ UNCHANGED otherVars

\* page 7 lines 70-96 and 166-173; page 6 lines 332-345, where the thresholds
\* stay None and no breach is searched
ForecastFit ==
    /\ pc = "filters"
    /\ df_kpi' = ProphetFrame(page, series_rows)
    /\ Len(df_kpi') >= MinPoints
    /\ kpi_thresh' = IF page = "prediction"
                     THEN ThresholdsGet(Lower(selected_kpi))
                     ELSE <<None, None>>
    /\ \E a, b \in YhatInputs, fut \in [1..period_days -> YhatInputs] :
          forecast' = Predict(FutureDates(df_kpi', period_days), Len(df_kpi'), a, b, fut)
    /\ predicted_failure_date' =
          IF page = "prediction"
          THEN PredictedFailureDate(forecast', kpi_thresh'[1], kpi_thresh'[2])
          ELSE None
    /\ days_remaining' = DaysRemaining(predicted_failure_date', today)
    /\ pc' = "forecast"
    /\ UNCHANGED <<page, series_rows, selected_kpi, period_days, today>>
    /\ UNCHANGED trendVars
    /\ UNCHANGED healthVars
    /\ UNCHANGED otherVars

ForecastNext == ForecastNoData \/ ForecastInsufficient \/ ForecastFit

SpecForecast == ForecastInit /\ [][ForecastNext]_vars

-----------------------------------------------------------------------------
(* Claims about the forecast *)

\* the number of rows of the chosen series that carry a value
ObservedPoints == Len(NonNaN(series_rows))

ForecastEnded == pc \in {"nodata", "insufficient", "forecast"}

\* C16: a series with fewer than 10 observed points is never fitted: the run
\* ends without forecast rows and without breach date; a series with at least
\* 10 observed points is fitted.
C16_ShortSeriesNeverFitted ==
    ForecastEnded =>
        /\ ObservedPoints < MinPoints =>
              /\ pc # "forecast"
              /\ forecast = <<>>
              /\ IsNone(predicted_failure_date)
        /\ ObservedPoints >= MinPoints =>
              /\ pc = "forecast"
              /\ forecast # <<>>

LowBound == kpi_thresh[1]
HighBound == kpi_thresh[2]

Exceeds(i) == ~IsNone(HighBound) /\ forecast[i].yhat > Val(HighBound)
Drops(i) == ~IsNone(LowBound) /\ forecast[i].yhat < Val(LowBound)

\* the forecast rows are in the order of their dates
DatesAscend ==
    \A i, j \in 1..Len(forecast) : i < j => forecast[i].ds < forecast[j].ds

\* C17: with only a high bound the breach date is the date of the earliest
\* forecast row with yhat > high; with only a low bound it is the date of the
\* earliest forecast row with yhat < low.
C17_OneSidedBreach ==
    pc = "forecast" =>
        /\ DatesAscend
        /\ (IsNone(LowBound) /\ ~IsNone(HighBound)) =>
              \A i \in 1..Len(forecast) :
                  (Exceeds(i) /\ \A j \in 1..(i - 1) : ~Exceeds(j)) =>
                      predicted_failure_date = Num(forecast[i].ds)
        /\ (~IsNone(LowBound) /\ IsNone(HighBound)) =>
              \A i \in 1..Len(forecast) :
                  (Drops(i) /\ \A j \in 1..(i - 1) : ~Drops(j)) =>
                      predicted_failure_date = Num(forecast[i].ds)

\* a high-only KPI whose forecast touches the bound before it exceeds it
C17_Witness ==
    /\ pc = "forecast"
    /\ IsNone(LowBound)
    /\ ~IsNone(HighBound)
    /\ \E i \in 2..Len(forecast) :
          /\ Exceeds(i)
          /\ \A j \in 1..(i - 1) : ~Exceeds(j)
          /\ forecast[i - 1].yhat = Val(HighBound)
          /\ predicted_failure_date = Num(forecast[i].ds)

\* C18: with both bounds the breach date is the earliest date at which
\* yhat > high or yhat < low.
C18_TwoSidedBreach ==
    (pc = "forecast" /\ ~IsNone(LowBound) /\ ~IsNone(HighBound)) =>
            \A i \in 1..Len(forecast) :
                ((Exceeds(i) \/ Drops(i))
                    /\ \A j \in 1..(i - 1) : ~(Exceeds(j) \/ Drops(j))) =>
                    predicted_failure_date = Num(forecast[i].ds)

\* the rows of the forecast that lie in the horizon, after the last row of
\* the history
InHorizon(i) == i > Len(df_kpi)

\* C19: when no forecast row within the horizon breaches the bound of the
\* KPI, no breach date and no remaining days are reported; the remaining days
\* are reported exactly when a breach date is.
C19_NoBreachNoDate ==
    ForecastEnded =>
        /\ (\A i \in 1..Len(forecast) : InHorizon(i) => ~(Exceeds(i) \/ Drops(i))) =>
              /\ IsNone(predicted_failure_date)
              /\ IsNone(days_remaining)
        /\ (IsNone(days_remaining) <=> IsNone(predicted_failure_date))

\* C20: a reported remaining life is the breach date minus the date of the
\* run, whatever the date of the last row of the series.
C20_RemainingFromToday ==
    (ForecastEnded /\ ~IsNone(predicted_failure_date)) =>
            days_remaining = Num(Val(predicted_failure_date) - today)

\* a breach reported in a run made after the last row of the series
C20_Witness ==
    /\ pc = "forecast"
    /\ ~IsNone(predicted_failure_date)
    /\ today # df_kpi[Len(df_kpi)].ds
    /\ days_remaining = Num(Val(predicted_failure_date) - today)
    /\ days_remaining # Num(Val(predicted_failure_date) - df_kpi[Len(df_kpi)].ds)

-----------------------------------------------------------------------------
(* Claims about the threshold lookups and the date of the breach *)

\* pages/1_Trend_Analyzer.py lines 200, 221, 279 and 293: the trend page looks
\* the thresholds up under normalize_text of the name (its KPI_THRESHOLDS,
\* lines 60-67, is the table of the prediction page)
TrendThresholds(name) == ThresholdsGet(normalize_text(name))

\* pages/7_Prediction_Module.py line 70
PredictionThresholds(name) == ThresholdsGet(Lower(name))

\* C21: two KPI names that are equal after stripping the non-alphanumeric
\* characters and lower-casing resolve to the same thresholds, in the lookup
\* of the trend page and in the lookup of the prediction page; the
\* canonicalization is idempotent.
C21_SameKeySameThresholds ==
    (pc \in {"insufficient", "forecast"} /\ page = "prediction") =>
        /\ normalize_text(normalize_text(selected_kpi)) = normalize_text(selected_kpi)
        /\ \A other \in ForecastKpiInputs :
              normalize_text(other) = normalize_text(selected_kpi) =>
                  /\ TrendThresholds(other) = TrendThresholds(selected_kpi)
                  /\ kpi_thresh = PredictionThresholds(other)

\* C28: a reported breach date is later than the last observed date of the
\* series.
C28_BreachAfterLastObserved ==
    (pc = "forecast" /\ ~IsNone(predicted_failure_date)) =>
        Val(predicted_failure_date) > df_kpi[Len(df_kpi)].ds

-----------------------------------------------------------------------------
(* Claims about the detector as a function of the sensitivity, and about   *)
(* the shape of its lists                                                   *)

\* the detector on the series and thresholds of the page with factor k
DetectWith(k) == detect_peaks_lows(values, thresh[1], thresh[2], k)

\* C29: the detector is monotone in the sensitivity factor: with a larger
\* factor the peaks and the lows are subsets of those with a smaller one; an
\* index that is a strict local extremum and breaches a defined bound is
\* flagged with every factor.
C29_MonotoneInFactor ==
    pc = "done" =>
        /\ \A k \in FactorInputs :
              k >= std_factor =>
                  /\ Range(DetectWith(k)[1]) \subseteq Range(peaks)
                  /\ Range(DetectWith(k)[2]) \subseteq Range(lows)
        /\ \A i \in 1..(Len(values) - 2) :
              InteriorPresent(i) =>
                  /\ (StrictLocalMax(i) /\ ~IsNone(High) /\ Val(At(i)) > Val(High))
                        => InList(peaks, i)
                  /\ (StrictLocalMin(i) /\ ~IsNone(Low) /\ Val(At(i)) < Val(Low))
                        => InList(lows, i)

\* a peak flagged with factor 0.5 that factor 3.0 no longer flags
C29_Witness ==
    /\ pc = "done"
    /\ std_factor = 5
    /\ peaks # <<>>
    /\ DetectWith(30)[1] = <<>>

\* s is strictly increasing and holds no two adjacent indices
Spaced(s) == \A j \in 1..(Len(s) - 1) : s[j + 1] > s[j] + 1

\* C30: the peaks and the lows are disjoint, each list is strictly increasing
\* and holds no two adjacent indices, and peaks + lows of the record is at
\* most max(rows - 2, 0).
C30_ListsShape ==
    pc = "done" =>
        /\ Range(peaks) \cap Range(lows) = {}
        /\ Spaced(peaks)
        /\ Spaced(lows)
        /\ Len(kpi_summary) = 1
        /\ kpi_summary[1].peaks = Len(peaks)
        /\ kpi_summary[1].lows = Len(lows)
        /\ kpi_summary[1].rows = Len(values)
        /\ kpi_summary[1].peaks + kpi_summary[1].lows
              <= (IF kpi_summary[1].rows > 2 THEN kpi_summary[1].rows - 2 ELSE 0)

\* a series of four rows with a peak next to a low: the bound is met
C30_Witness ==
    /\ pc = "done"
    /\ Len(values) = 4
    /\ peaks = <<1>>
    /\ lows = <<2>>
    /\ kpi_summary[1].peaks + kpi_summary[1].lows = kpi_summary[1].rows - 2

-----------------------------------------------------------------------------
(* A second run of a page on the same inputs.  Streamlit runs the script of *)
(* a page again from its first line on every interaction; the uploaded     *)
(* table and the widgets keep their values.                                 *)

\* pages/1_Trend_Analyzer.py lines 277-336, run again
TrendRerun ==
    /\ pc = "done"
    /\ runs = 1
    /\ PlotRun
    /\ runs' = runs + 1
    /\ UNCHANGED <<pc, values, thresh, std_factor>>
    /\ UNCHANGED healthVars
    /\ UNCHANGED forecastVars
    /\ UNCHANGED sideVars

\* pages/6_Equipment_Health_Score.py lines 209-284, run again
HealthRerun ==
    /\ pc = "scored"
    /\ runs = 1
    /\ df_filtered' = Mask(df, selected_eq, selected_kpis)
    /\ weights' = NormalizedWeights(RawWeights(selected_kpis, slider))
    /\ stats' = Stats(df_filtered', weights')
    /\ eq_health' = EqHealth(stats')
    /\ runs' = runs + 1
    /\ UNCHANGED <<pc, df, selected_eq, selected_kpis, slider>>
    /\ UNCHANGED trendVars
    /\ UNCHANGED forecastVars
    /\ UNCHANGED sideVars

\* pages/7_Prediction_Module.py lines 70-173, run again, possibly on another
\* day: Prophet's fit of the same frame over the same horizon gives the same
\* rows
ForecastRerun ==
    /\ pc = "forecast"
    /\ page = "prediction"
    /\ runs = 1
    /\ today' \in TodayInputs
    /\ df_kpi' = ProphetFrame(page, series_rows)
    /\ kpi_thresh' = ThresholdsGet(Lower(selected_kpi))
    /\ forecast' = forecast
    /\ predicted_failure_date' =
          PredictedFailureDate(forecast', kpi_thresh'[1], kpi_thresh'[2])
    /\ days_remaining' = DaysRemaining(predicted_failure_date', today')
    /\ runs' = runs + 1
    /\ UNCHANGED <<pc, page, series_rows, selected_kpi, period_days>>
    /\ UNCHANGED trendVars
    /\ UNCHANGED healthVars
    /\ UNCHANGED sideVars

\* the weight sliders all at 0.0 or all at 0.5
EqualSliders == {[k \in selected_kpi_norms(DisplayKpis) |-> w] : w \in {0, 30}}

\* the inputs of the runs that are repeated: every series of the trend page,
\* the health page with every equipment and KPI selected, every forecast
RerunInit ==
    \/ Init
    \/ /\ HealthInit
       /\ selected_eq = EQS
       /\ selected_kpis = DisplayKpis
       /\ slider \in EqualSliders
    \/ ForecastInit

RerunNext ==
    \/ PlotFloor
    \/ HealthStop
    \/ HealthCompute
    \/ ForecastNoData
    \/ ForecastInsufficient
    \/ ForecastFit
    \/ TrendRerun
    \/ HealthRerun
    \/ ForecastRerun

SpecRerun == RerunInit /\ [][RerunNext]_vars

-----------------------------------------------------------------------------
(* Intake of the trend page: pages/1_Trend_Analyzer.py lines 172-336 for a *)
(* file of one KPI ("doorFriction") read over the whole date range of the   *)
(* file.  A row is [eq, floor, date, ave]; date is NaN where parse_dates    *)
(* gave NaT and ave is NaN where pd.to_numeric(errors="coerce") gives NaN.  *)

\* the longest uploaded table
MaxFileRows == 2

EqNames == {"E1", "E2"}
FloorNames == {1, 2}
DateCells == {NaN, Num(1), Num(2)}
AveCells == {NaN, Num(40)}

\* line 184: required = ["ckpi_statistics_date","ave","ckpi","floor","eq"]
required == {"ckpi_statistics_date", "ave", "ckpi", "floor", "eq"}

FileRow == [eq : EqNames, floor : FloorNames, date : DateCells, ave : AveCells]

FileRowsInputs == UNION {[1..n -> FileRow] : n \in 0..MaxFileRows}

\* the files: every required column, or one of floor, ave, eq missing
FileColsInputs == {required} \cup {required \ {c} : c \in {"floor", "ave", "eq"}}

\* lines 205-209: the choices of a multiselect are the values of the column
Choices(rows, col) == {rows[i][col] : i \in 1..Len(rows)}

\* lines 183, 187-188, 192: the file is refused with st.error
Refused(cols, rows) ==
    \/ rows = <<>>
    \/ ~(required \subseteq cols)
    \/ \A i \in 1..Len(rows) : IsNaN(rows[i].date)

\* lines 256-263 filter_data: the mask over eq, floor and the date range; a
\* NaT date fails both comparisons of the range
filter_data(rows, eqs, floors) ==
    SelectSeq(rows, LAMBDA r : r.eq \in eqs /\ r.floor \in floors /\ ~IsNaN(r.date))

\* sort_values(date_col) on one element more: it goes behind the rows that
\* are not later
RECURSIVE InsertByDate(_, _)
InsertByDate(sorted, r) ==
    IF sorted = <<>> THEN <<r>>
    ELSE IF Val(sorted[Len(sorted)].date) <= Val(r.date) THEN Append(sorted, r)
    ELSE Append(InsertByDate(SubSeq(sorted, 1, Len(sorted) - 1), r),
                sorted[Len(sorted)])

\* line 294: sort_values(date_col)
RECURSIVE sort_values(_)
sort_values(rows) ==
    IF rows = <<>> THEN <<>>
    ELSE InsertByDate(sort_values(SubSeq(rows, 1, Len(rows) - 1)), rows[Len(rows)])

\* line 293: floors = sorted(df_kpi[floor_col].dropna().unique())
RECURSIVE SortedFloors(_)
SortedFloors(fs) ==
    IF fs = {} THEN <<>>
    ELSE LET m == CHOOSE x \in fs : \A y \in fs : x <= y
         IN  <<m>> \o SortedFloors(fs \ {m})

\* lines 294-336 for one floor: df_floor, the detector on df_floor[ave_col]
\* at the default sensitivity 1.0, the record of kpi_summary
FloorRecord(filtered, floor) ==
    LET df_floor == sort_values(SelectSeq(filtered, LAMBDA r : r.floor = floor))
        vals == [i \in 1..Len(df_floor) |-> df_floor[i].ave]
        th == TrendThresholds(<<"d","o","o","r","F","r","i","c","t","i","o","n">>)
        res == detect_peaks_lows(vals, th[1], th[2], 10)
    IN  [floor |-> floor, df_floor |-> df_floor, values |-> vals,
         peaks |-> Len(res[1]), lows |-> Len(res[2]), rows |-> Len(df_floor)]

\* line 268: df_filtered.empty
FilteredEmpty(filtered) == filtered = <<>>

IntakeInit ==
    /\ pc = "upload"
    /\ file_cols \in FileColsInputs
    /\ file_rows \in FileRowsInputs
    /\ trend_eqs \in SUBSET Choices(file_rows, "eq")
    /\ trend_floors \in SUBSET Choices(file_rows, "floor")
    /\ Refused(file_cols, file_rows) => trend_eqs = {} /\ trend_floors = {}
    /\ trend_result = "none"
    /\ floor_series = <<>>
    /\ values = <<>>
    /\ thresh = <<None, None>>
    /\ std_factor = 10
    /\ statuses = <<>>
    /\ peaks = <<>>
    /\ lows = <<>>
    /\ kpi_summary = <<>>
    /\ df = <<>>
    /\ selected_eq = {}
    /\ selected_kpis = {}
    /\ slider = <<>>
    /\ df_filtered = <<>>
    /\ weights = <<>>
    /\ stats = <<>>
    /\ eq_health = <<>>
    /\ ForecastIdle
    /\ runs = 1
    /\ TrackerIdle
    /\ ReportIdle

IntakeFrame ==
    /\ UNCHANGED <<file_cols, file_rows, trend_eqs, trend_floors, runs>>
    /\ UNCHANGED trackerVars
    /\ UNCHANGED reportVars
    /\ UNCHANGED trendVars
    /\ UNCHANGED healthVars
    /\ UNCHANGED forecastVars

\* lines 183-198: st.error and st.stop
TrendRefuse ==
    /\ pc = "upload"
    /\ Refused(file_cols, file_rows)
    /\ trend_result' = "error"
    /\ floor_series' = <<>>
    /\ pc' = "ended"
    /\ IntakeFrame

\* lines 265-270: st.warning("No data after applying filters.") and st.stop
TrendNoData ==
    /\ pc = "upload"
    /\ ~Refused(file_cols, file_rows)
    /\ FilteredEmpty(filter_data(file_rows, trend_eqs, trend_floors))
    /\ trend_result' = "warning"
    /\ floor_series' = <<>>
    /\ pc' = "ended"
    /\ IntakeFrame

\* lines 265-336: the filtered table is plotted floor by floor
TrendPlot ==
    /\ pc = "upload"
    /\ ~Refused(file_cols, file_rows)
    /\ LET filtered == filter_data(file_rows, trend_eqs, trend_floors)
           floors == SortedFloors(Choices(filtered, "floor"))
       IN  /\ ~FilteredEmpty(filtered)
           /\ floor_series' = [i \in 1..Len(floors) |-> FloorRecord(filtered, floors[i])]
    /\ trend_result' = "plotted"
    /\ pc' = "ended"
    /\ IntakeFrame

IntakeNext ==
    \/ TrendRefuse
    \/ TrendNoData
    \/ TrendPlot

SpecIntake == IntakeInit /\ [][IntakeNext]_vars

\* a row of the file whose date and value were both parsed
Parsed(r) == ~IsNaN(r.date) /\ ~IsNaN(r.ave)

\* C23: when a required column is missing, or no row of the file has both a
\* parsed date and a parsed value, the run stops before any record of a
\* series is produced.
C23_StopsBeforeProducing ==
    (/\ pc = "ended"
     /\ \/ ~(required \subseteq file_cols)
        \/ \A i \in 1..Len(file_rows) : ~Parsed(file_rows[i]))
        => /\ trend_result \in {"error", "warning"}
           /\ floor_series = <<>>

\* C24: a row whose date or value was not parsed is in no series given to
\* the detector and in no row count.
C24_UnparsedRowsDropped ==
    pc = "ended" =>
        \A s \in 1..Len(floor_series) :
            /\ \A i \in 1..Len(floor_series[s].df_floor) :
                   Parsed(floor_series[s].df_floor[i])
            /\ floor_series[s].rows =
                   Len(SelectSeq(file_rows,
                                 LAMBDA r : /\ Parsed(r)
                                            /\ r.eq \in trend_eqs
                                            /\ r.floor = floor_series[s].floor))

\* C25: every series given to the detector holds the rows of one equipment
\* and one floor, in ascending order of date.
C25_OneKeyPerSeries ==
    pc = "ended" =>
        \A s \in 1..Len(floor_series) :
            LET rows == floor_series[s].df_floor
            IN  /\ \A i, j \in 1..Len(rows) :
                       rows[i].eq = rows[j].eq /\ rows[i].floor = rows[j].floor
                /\ \A i \in 1..(Len(rows) - 1) :
                       Val(rows[i].date) <= Val(rows[i + 1].date)

-----------------------------------------------------------------------------
(* Maintenance Tracker: pages/5_Maintenance_Tracker.py.  The file has the   *)
(* columns eq, ckpi, ckpi_statistics_date (every date parsed) and the two   *)
(* flag columns, and no floor column; a row is [eq, checked, review] and    *)
(* its __uid is its position.  The rows of the editor are not edited by     *)
(* hand.                                                                    *)

\* the longest table of the tracker
MaxTableRows == 2

TrackerRow == [eq : EqNames, checked : BOOLEAN, review : BOOLEAN]

TrackerFiles == UNION {[1..n -> TrackerRow] : n \in 1..MaxTableRows}

\* lines 33-61: with a file in the uploader the file is read again and both
\* session tables are replaced by it; without one the session tables are used
LoadFile(upl, file, session_df, session_table) ==
    IF upl THEN <<file, file>> ELSE <<session_df, session_table>>

\* lines 119-132: the mask over base; an empty selection does not filter
Matched(base, eqs) ==
    {i \in 1..Len(base) : eqs = {} \/ base[i].eq \in eqs}

\* lines 161-171: .loc[__uid.isin(uids), "checked"] = c and
\* .loc[__uid.isin(uids), "wrong / review"] = False
SetFlags(table, ids, c) ==
    [i \in 1..Len(table) |->
        IF i \in ids THEN [table[i] EXCEPT !.checked = c, !.review = FALSE]
        ELSE table[i]]

\* lines 203-218: the rows of the editor are written back by __uid, a row
\* with both flags loses the review flag
WriteBack(table, ids) ==
    [i \in 1..Len(table) |->
        IF i \in ids /\ table[i].checked /\ table[i].review
        THEN [table[i] EXCEPT !.review = FALSE]
        ELSE table[i]]

TrackerInit ==
    /\ pc = "tracker"
    /\ uploaded = TRUE
    /\ maint_file \in TrackerFiles
    /\ maint_df = None
    /\ maint_table_state = None
    /\ sel_eqs \in SUBSET Choices(maint_file, "eq")
    /\ pressed = "none"
    /\ uids = {}
    /\ base_at_press = <<>>
    /\ values = <<>>
    /\ thresh = <<None, None>>
    /\ std_factor = 10
    /\ statuses = <<>>
    /\ peaks = <<>>
    /\ lows = <<>>
    /\ kpi_summary = <<>>
    /\ df = <<>>
    /\ selected_eq = {}
    /\ selected_kpis = {}
    /\ slider = <<>>
    /\ df_filtered = <<>>
    /\ weights = <<>>
    /\ stats = <<>>
    /\ eq_health = <<>>
    /\ ForecastIdle
    /\ runs = 1
    /\ IntakeIdle
    /\ ReportIdle

TrackerFrame ==
    /\ UNCHANGED <<maint_file, sel_eqs, runs>>
    /\ UNCHANGED trendVars
    /\ UNCHANGED healthVars
    /\ UNCHANGED forecastVars
    /\ UNCHANGED intakeVars
    /\ UNCHANGED reportVars

\* lines 28-218 with no button pressed: the first run of the script and the
\* run that st.experimental_rerun() asks for
TrackerRun ==
    /\ pc \in {"tracker", "rerun"}
    /\ LET loaded == LoadFile(uploaded, maint_file, maint_df, maint_table_state)
           shown == Matched(loaded[2], sel_eqs)
       IN  /\ maint_df' = loaded[1]
           /\ IF shown = {}
              THEN maint_table_state' = loaded[2] /\ pc' = "stopped"
              ELSE maint_table_state' = WriteBack(loaded[2], shown) /\ pc' = "shown"
    /\ UNCHANGED <<uploaded, pressed, uids, base_at_press>>
    /\ TrackerFrame

\* lines 160-165: the run started by a press of the button; the tables are
\* loaded (lines 28-61), the flags of the filtered rows are set,
\* st.experimental_rerun()
SelectAll ==
    /\ pc = "shown"
    /\ LET loaded == LoadFile(uploaded, maint_file, maint_df, maint_table_state)
       IN  /\ maint_df' = loaded[1]
           /\ base_at_press' = loaded[2]
           /\ uids' = Matched(loaded[2], sel_eqs)
           /\ uids' # {}
           /\ maint_table_state' = SetFlags(loaded[2], uids', TRUE)
    /\ pressed' = "select"
    /\ pc' = "rerun"
    /\ UNCHANGED uploaded
    /\ TrackerFrame

\* lines 166-171: the run started by a press of the button; the tables are
\* loaded (lines 28-61), the flags of the filtered rows are set,
\* st.experimental_rerun()
DeselectAll ==
    /\ pc = "shown"
    /\ LET loaded == LoadFile(uploaded, maint_file, maint_df, maint_table_state)
       IN  /\ maint_df' = loaded[1]
           /\ base_at_press' = loaded[2]
           /\ uids' = Matched(loaded[2], sel_eqs)
           /\ uids' # {}
           /\ maint_table_state' = SetFlags(loaded[2], uids', FALSE)
    /\ pressed' = "deselect"
    /\ pc' = "rerun"
    /\ UNCHANGED uploaded
    /\ TrackerFrame

\* the user takes the file out of the uploader: the script runs on the
\* tables of the session (lines 55-58)
RemoveFile ==
    /\ pc = "shown"
    /\ uploaded
    /\ uploaded' = FALSE
    /\ maint_table_state' = WriteBack(maint_table_state, Matched(maint_table_state, sel_eqs))
    /\ UNCHANGED <<pc, maint_df, pressed, uids, base_at_press>>
    /\ TrackerFrame

TrackerNext ==
    \/ TrackerRun
    \/ SelectAll
    \/ DeselectAll
    \/ RemoveFile

SpecTracker == TrackerInit /\ [][TrackerNext]_vars

\* the flags a press leaves: set on the filtered rows, kept on the others
FlagsOfPress ==
    /\ Len(maint_table_state) = Len(base_at_press)
    /\ \A i \in 1..Len(base_at_press) :
          IF i \in uids
          THEN /\ maint_table_state[i].checked = (pressed = "select")
               /\ maint_table_state[i].review = FALSE
               /\ maint_table_state[i].eq = base_at_press[i].eq
          ELSE maint_table_state[i] = base_at_press[i]

\* C26: after Select All or Deselect All the filtered rows, and only they,
\* have the flags of the button, at once and on the rerun that follows
\* while the file stays in the uploader.
C26_FlagsSurviveRerun ==
    (pressed # "none" /\ uploaded) => FlagsOfPress

-----------------------------------------------------------------------------
(* Saved reports: backend/report_utils.py.  The clock counts the seconds of *)
(* one minute; the bytes of a report are the number of the call that wrote  *)
(* them.                                                                    *)

\* the calls of save_report of a session
MaxCalls == 3

\* the seconds the clock may advance
MaxSeconds == 2

REPORTS_DIR == "backend/reports"

\* pages/1_Trend_Analyzer.py line 399 and pages/3_Report_Generator.py line 452
ModuleNames == {"Trend_Analyzer", "Report_Generator"}

\* filter_label: None (the default), an empty label, a preset of the trend page
LabelInputs == {None, Num(""), Num("Custom"), Num("Past_Week")}

ExtensionInputs == {"xlsx", "docx"}

\* line 18: datetime.now().strftime("%Y%m%d_%H%M%S"): the seconds are the
\* last field of the stamp
Timestamp(now) == "20250101_12000" \o ToString(now)

\* lines 17-21: get_module_folder, filter_str, filename, file_path
FilePath(module_name, filter_label, extension, now) ==
    LET filter_str == IF IsNone(filter_label) \/ Val(filter_label) = ""
                      THEN ""
                      ELSE "_" \o Val(filter_label)
        filename == module_name \o filter_str \o "_" \o Timestamp(now)
                       \o "." \o extension
    IN  REPORTS_DIR \o "/" \o module_name \o "/" \o filename

\* open(file_path, "wb") and f.write(file_bytes): the file is created or
\* replaced
WriteFile(fs, path, bytes) ==
    [q \in DOMAIN fs \cup {path} |-> IF q = path THEN bytes ELSE fs[q]]

ReportsInit ==
    /\ pc = "reports"
    /\ ReportIdle
    /\ values = <<>>
    /\ thresh = <<None, None>>
    /\ std_factor = 10
    /\ statuses = <<>>
    /\ peaks = <<>>
    /\ lows = <<>>
    /\ kpi_summary = <<>>
    /\ df = <<>>
    /\ selected_eq = {}
    /\ selected_kpis = {}
    /\ slider = <<>>
    /\ df_filtered = <<>>
    /\ weights = <<>>
    /\ stats = <<>>
    /\ eq_health = <<>>
    /\ ForecastIdle
    /\ runs = 1
    /\ IntakeIdle
    /\ TrackerIdle

ReportsFrame ==
    /\ UNCHANGED <<pc, runs>>
    /\ UNCHANGED trendVars
    /\ UNCHANGED healthVars
    /\ UNCHANGED forecastVars
    /\ UNCHANGED intakeVars
    /\ UNCHANGED trackerVars

\* a second passes
Tick ==
    /\ clock < MaxSeconds
    /\ clock' = clock + 1
    /\ UNCHANGED <<files, written>>
    /\ ReportsFrame

\* lines 15-24
save_report ==
    /\ Len(written) < MaxCalls
    /\ \E module_name \in ModuleNames, filter_label \in LabelInputs,
          extension \in ExtensionInputs :
          LET file_path == FilePath(module_name, filter_label, extension, clock)
          IN  /\ files' = WriteFile(files, file_path, Len(written) + 1)
              /\ written' = Append(written, file_path)
    /\ UNCHANGED clock
    /\ ReportsFrame

ReportsNext ==
    \/ Tick
    \/ save_report

SpecReports == ReportsInit /\ [][ReportsNext]_vars

\* C27: every call of save_report writes to a path that no earlier call
\* wrote to, so every saved report is still on disk with its own bytes.
C27_SavedUniquely ==
    /\ \A i, j \in 1..Len(written) : i # j => written[i] # written[j]
    /\ \A i \in 1..Len(written) : files[written[i]] = i

=============================================================================
